---- MODULE Spec2Model ----
(***************************************************************************)
(* Deployment of Salesforce custom object instances                        *)
(* (custom_object_instances_deploy.ts, held in src/unnamed/part_002).      *)
(*                                                                         *)
(* One call of deployCustomObjectInstancesGroup is a state machine: the    *)
(* synchronous code between two awaited remote calls is one action, and    *)
(* what the remote store answers (the fetched records, the per-record      *)
(* results of a bulk call, a rejected promise) is chosen with \E.          *)
(***************************************************************************)
EXTENDS Integers, Sequences, FiniteSets, TLC

VARIABLES
    changes,            \* the change group handed to the call (never mutated)
    value,              \* value[i]: instance.value of getChangeElement(changes[i])
    pc,                 \* the await the call is suspended at
    existingRecordsLookup,  \* hash -> record, after the lookup query
    existingInstances,  \* positions classified existing (in input order)
    newInstances,       \* positions classified new (in input order)
    insertResult,       \* ActionResult of insertInstances, kept for the outcome
    calls,              \* remote calls issued so far, with what the remote answered
    outcome,            \* the DeployResult returned, NoOutcome while running
    hashes              \* the identity hashes computed, each with its input

vars == <<changes, value, pc, existingRecordsLookup, existingInstances,
          newInstances, insertResult, calls, outcome, hashes>>

--------------------------------------------------------------------------
(* Bounds *)

MaxChanges == 3
MaxRecords == 2
MaxHashes == 2

--------------------------------------------------------------------------
(* Values *)

Undefined == "undefined"    \* a JS undefined / an absent key
Null == "null"              \* a JS null
NoOutcome == "running"
CUSTOM_OBJECT_ID_FIELD == "Id"

\* vals[fieldName] of a JS object: undefined when the key is absent
Get(vals, fieldName) ==
    IF fieldName \in DOMAIN vals THEN vals[fieldName] ELSE Undefined

\* obj[key] = v
Put(obj, key, v) ==
    [k \in DOMAIN obj \cup {key} |-> IF k = key THEN v ELSE obj[k]]

\* Array.prototype.filter keeps the order of the array: the positions of
\* the set S in increasing order
RECURSIVE Ascending(_)
Ascending(S) ==
    IF S = {} THEN <<>>
    ELSE LET first == CHOOSE x \in S : \A y \in S : x <= y
         IN <<first>> \o Ascending(S \ {first})

Range(s) == {s[i] : i \in DOMAIN s}

SeqsUpTo(S, n) == UNION {[1..m -> S] : m \in 0..n}

--------------------------------------------------------------------------
(* The inputs: instances, changes, remote records, bulk results *)

\* The id fields getIdFields resolves for the type (its names, in order)
idFieldsNames == <<"Name">>

InstancePool ==
    { [type |-> "T1", name |-> "n1", apiName |-> "n1", value |-> [Name |-> "a"]],
      [type |-> "T1", name |-> "n2", apiName |-> "n2", value |-> [Name |-> "b"]],
      [type |-> "T1", name |-> "n3", apiName |-> "n3", value |-> [Name |-> "a"]],
      [type |-> "T2", name |-> "n4", apiName |-> "n4", value |-> [Name |-> "a"]] }

NoInstance == [type |-> "none", name |-> "none", apiName |-> "none", value |-> <<>>]

ChangePool ==
    { [action |-> "add", before |-> NoInstance, after |-> inst] : inst \in InstancePool }
    \cup { [action |-> "remove", before |-> inst, after |-> NoInstance] : inst \in InstancePool }
    \cup { [action |-> "modify", before |-> inst, after |-> inst] : inst \in InstancePool }
    \cup { [action |-> "modify", before |-> [inst EXCEPT !.apiName = "renamed"], after |-> inst] :
               inst \in InstancePool }

\* Records of the remote store that a lookup query can return
RecordPool ==
    { [attributes |-> "T1", Id |-> "r1", Name |-> "a"],
      [attributes |-> "T1", Id |-> "r2", Name |-> "a"] }

\* BatchResultInfo of the record at position i of a bulk call: success with
\* an id, failure with an errors list, failure without one
ResultPool(i) ==
    { [success |-> TRUE, id |-> "x" \o ToString(i), hasErrors |-> FALSE, errors |-> <<>>],
      [success |-> FALSE, id |-> Undefined, hasErrors |-> TRUE, errors |-> <<"err">>],
      [success |-> FALSE, id |-> Undefined, hasErrors |-> FALSE, errors |-> <<>>] }

\* The promise of a remote call rejects (a transport failure)
Reject == [rejected |-> TRUE, results |-> <<>>]

Resolve(results) == [rejected |-> FALSE, results |-> results]

\* What bulkLoadOperation can answer for n records: a rejection, or results
\* for the first m <= n records
BulkResponses(n) ==
    {Reject} \cup
    UNION { {Resolve(r) : r \in {q \in [1..m -> UNION {ResultPool(i) : i \in 1..m}] :
                                    \A i \in 1..m : q[i] \in ResultPool(i)}} : m \in 0..n }

\* What the lookup queries can answer, flattened: a rejection, or records
QueryResponses == {Reject} \cup {Resolve(r) : r \in SeqsUpTo(RecordPool, MaxRecords)}

--------------------------------------------------------------------------
(* Changes and instances *)

getChangeElement(change) ==
    IF change.action = "remove" THEN change.before ELSE change.after

isAdditionChange(change) == change.action = "add"
isRemovalChange(change) == change.action = "remove"
isModificationChange(change) == change.action = "modify"

\* changes.map(change => getChangeElement(change))
instances == [i \in DOMAIN changes |-> getChangeElement(changes[i])]

--------------------------------------------------------------------------
(* Per-record results *)

\* results[index] when the remote returned fewer results than records
NoResult == [missing |-> TRUE]

isMissing(result) == "missing" \in DOMAIN result

\* One string per errored instance: the instance's name and its errors
getErrorMessagesFromInstAndResults(instancesAndResults) ==
    [k \in DOMAIN instancesAndResults |->
        [name |-> instances[instancesAndResults[k].instance].name,
         errors |-> instancesAndResults[k].result.errors]]

getAndLogErrors(instancesAndResults) ==
    LET errored(k) == /\ ~instancesAndResults[k].result.success
                      /\ instancesAndResults[k].result.hasErrors
        keep == Ascending({p \in 1..Len(instancesAndResults) : errored(p)})
    IN getErrorMessagesFromInstAndResults(
           [k \in DOMAIN keep |-> instancesAndResults[keep[k]]])

\* insts: positions (in changes) of the instances of the bulk call
groupInstancesAndResultsByIndex(results, insts) ==
    [index \in DOMAIN insts |->
        [instance |-> insts[index],
         result |-> IF index <= Len(results) THEN results[index] ELSE NoResult]]

\* Reading result.success of an undefined result is a TypeError
throwsTypeError(instancesAndResults) ==
    \E k \in DOMAIN instancesAndResults : isMissing(instancesAndResults[k].result)

\* instancesAndResults.filter(({ result }) => result.success)
successOf(instancesAndResults) ==
    LET ok(k) == instancesAndResults[k].result.success
        keep == Ascending({p \in 1..Len(instancesAndResults) : ok(p)})
    IN [k \in DOMAIN keep |-> instancesAndResults[keep[k]]]

getActionResult(instancesAndResults) ==
    [successInstances |->
        LET ok == successOf(instancesAndResults)
        IN [k \in DOMAIN ok |-> ok[k].instance],
     errorMessages |-> getAndLogErrors(instancesAndResults)]

EmptyActionResult == [successInstances |-> <<>>, errorMessages |-> <<>>]

--------------------------------------------------------------------------
(* The bulk executors.  insts are positions, val the instances' values,   *)
(* resp the remote's answer should the bulk call be issued.  The result   *)
(* tells whether the function threw, the bulk calls it issued, its        *)
(* ActionResult and the instances' values after it.                       *)

Call(op, typeName, insts, resp) ==
    [op |-> op, typeName |-> typeName, instances |-> insts, response |-> resp]

\* A bug: one bulk call per record
bulkLoadOperationPerRecord(op, typeName, insts, resp) ==
    [k \in DOMAIN insts |-> Call(op, typeName, <<insts[k]>>, resp)]

\* client.bulkLoadOperation(typeName, op, records): one call for all records
bulkLoadOperation(op, typeName, insts, resp) ==
    <<Call(op, typeName, insts, resp)>>

\* A bug: the guard is missing
isEmptyBatchUnchecked(insts) == FALSE

\* if (instances.length === 0) of insertInstances and updateInstances
isEmptyBatch(insts) == Len(insts) = 0

Returned(callsMade, actionResult, val) ==
    [threw |-> "no", calls |-> callsMade, result |-> actionResult, value |-> val]

Threw(what, callsMade, val) ==
    [threw |-> what, calls |-> callsMade, result |-> EmptyActionResult, value |-> val]

\* A bug: the Id goes to the instance at the index of the filtered list
addIdsByFilteredIndex(successInstAndRes, val) ==
    [i \in DOMAIN val |->
        IF i \in DOMAIN successInstAndRes
        THEN Put(val[i], CUSTOM_OBJECT_ID_FIELD, successInstAndRes[i].result.id)
        ELSE val[i]]

\* Add IDs to success instances
addIds(successInstAndRes, val) ==
    [i \in DOMAIN val |->
        IF \E k \in DOMAIN successInstAndRes : successInstAndRes[k].instance = i
        THEN LET last == CHOOSE k \in DOMAIN successInstAndRes :
                            /\ successInstAndRes[k].instance = i
                            /\ \A j \in DOMAIN successInstAndRes :
                                  successInstAndRes[j].instance = i => j <= k
             IN Put(val[i], CUSTOM_OBJECT_ID_FIELD, successInstAndRes[last].result.id)
        ELSE val[i]]

insertInstances(typeName, insts, val, resp) ==
    IF isEmptyBatch(insts) THEN Returned(<<>>, EmptyActionResult, val)
    ELSE LET call == bulkLoadOperation("insert", typeName, insts, resp)
             instancesAndResults == groupInstancesAndResultsByIndex(resp.results, insts)
             successInstAndRes == successOf(instancesAndResults)
         IN IF resp.rejected THEN Threw("rejected", call, val)
            ELSE IF throwsTypeError(instancesAndResults) THEN Threw("TypeError", call, val)
            ELSE Returned(call,
                          [successInstances |->
                              [k \in DOMAIN successInstAndRes |-> successInstAndRes[k].instance],
                           errorMessages |-> getAndLogErrors(instancesAndResults)],
                          addIds(successInstAndRes, val))

updateInstances(typeName, insts, val, resp) ==
    IF isEmptyBatch(insts) THEN Returned(<<>>, EmptyActionResult, val)
    ELSE LET call == bulkLoadOperation("update", typeName, insts, resp)
             instancesAndResults == groupInstancesAndResultsByIndex(resp.results, insts)
         IN IF resp.rejected THEN Threw("rejected", call, val)
            ELSE IF throwsTypeError(instancesAndResults) THEN Threw("TypeError", call, val)
            ELSE Returned(call, getActionResult(instancesAndResults), val)

deleteInstances(typeName, insts, val, resp) ==
    LET call == bulkLoadOperation("delete", typeName, insts, resp)
        instancesAndResults == groupInstancesAndResultsByIndex(resp.results, insts)
    IN IF resp.rejected THEN Threw("rejected", call, val)
       ELSE IF throwsTypeError(instancesAndResults) THEN Threw("TypeError", call, val)
       ELSE Returned(call, getActionResult(instancesAndResults), val)

--------------------------------------------------------------------------
(* Matching by the hash of the id fields' values *)

\* safeJsonStringify of an object built from entries: the keys in the
\* order of the entries, a key whose value is undefined left out, null kept
safeJsonStringify(entries) ==
    LET defined(entry) == entry[2] # Undefined
    IN SelectSeq(entries, defined)

\* A digest: equal inputs give equal digests, no two inputs collide
toMD5(text) == <<"md5", text>>

\* A bug: the object is built from the keys of vals, not in the order of
\* the id fields
computeSaltoIdHashPicked(names, vals) ==
    LET keys == CHOOSE order \in [1..Len(names) -> Range(names)] : Range(order) = Range(names)
        idFieldsValues == [k \in DOMAIN keys |-> <<keys[k], Get(vals, keys[k])>>]
    IN toMD5(safeJsonStringify(idFieldsValues))

\* computeSaltoIdHash of deployAddInstances, for the id fields' names it
\* closes over
computeSaltoIdHashWith(names, vals) ==
    LET idFieldsValues == [k \in DOMAIN names |-> <<names[k], Get(vals, names[k])>>]
    IN toMD5(safeJsonStringify(idFieldsValues))

computeSaltoIdHash(vals) == computeSaltoIdHashWith(idFieldsNames, vals)

\* The record's values by field name, without the record's attributes
transformRecordToValues(record) ==
    [k \in DOMAIN record \ {"attributes"} |-> record[k]]

\* A bug: the nulls of the record stay
cloneKeepingNulls(val) == val

\* Object.entries(val).filter(([_k, v]) => v !== null); the values of the
\* modelled records are primitives, so there is no nested object to clone
cloneWithoutNulls(val) ==
    [k \in {f \in DOMAIN val : val[f] # Null} |-> val[k]]

computeRecordSaltoIdHashWith(names, record) ==
    computeSaltoIdHashWith(names, cloneWithoutNulls(transformRecordToValues(record)))

computeRecordSaltoIdHash(record) == computeRecordSaltoIdHashWith(idFieldsNames, record)

\* A bug: only the first of the fetched records is kept
keyByOnlyFirst(records) ==
    [h \in {computeRecordSaltoIdHash(records[k]) : k \in DOMAIN records \cap {1}} |->
        records[1]]

\* A bug: of the records with one key, the first one stays
keyByFirst(records) ==
    [h \in {computeRecordSaltoIdHash(records[k]) : k \in DOMAIN records} |->
        LET first == CHOOSE k \in DOMAIN records :
                         /\ computeRecordSaltoIdHash(records[k]) = h
                         /\ \A j \in DOMAIN records :
                               computeRecordSaltoIdHash(records[j]) = h => k <= j
        IN records[first]]

\* _.keyBy(records, computeRecordSaltoIdHash): of the records with one
\* key, the last one stays
keyBy(records) ==
    [h \in {computeRecordSaltoIdHash(records[k]) : k \in DOMAIN records} |->
        LET last == CHOOSE k \in DOMAIN records :
                        /\ computeRecordSaltoIdHash(records[k]) = h
                        /\ \A j \in DOMAIN records :
                              computeRecordSaltoIdHash(records[j]) = h => j <= k
        IN records[last]]

\* The predicate of the partition: the instance's hash is a key of the lookup
isExisting(lookup, vals) == computeSaltoIdHash(vals) \in DOMAIN lookup

--------------------------------------------------------------------------
Init ==
    /\ changes \in SeqsUpTo(ChangePool, MaxChanges)
    /\ value = [i \in DOMAIN changes |-> getChangeElement(changes[i]).value]
    /\ pc = "start"
    /\ existingRecordsLookup = <<>>
    /\ existingInstances = <<>>
    /\ newInstances = <<>>
    /\ insertResult = [successInstances |-> <<>>, errorMessages |-> <<>>]
    /\ calls = <<>>
    /\ outcome = NoOutcome
    /\ hashes = {}

--------------------------------------------------------------------------
(* The DeployResult *)

Error(kind, name, text) == [kind |-> kind, name |-> name, text |-> text]

\* errorMessages.map(error => new Error(error))
recordErrors(errorMessages) ==
    [k \in DOMAIN errorMessages |->
        Error("record", errorMessages[k].name, errorMessages[k].errors)]

\* A bug: what the insert had applied survives a later failure
fatalResultKeepingInserts(error) ==
    [appliedChanges |-> [k \in DOMAIN insertResult.successInstances |->
                            [action |-> "add", instance |-> insertResult.successInstances[k]]],
     errors |-> <<error>>]

\* The catch block of deployCustomObjectInstancesGroup
fatalResult(error) == [appliedChanges |-> <<>>, errors |-> <<error>>]

thrown(what) ==
    IF what = "rejected" THEN Error("fatal", "client", "the remote call rejected")
    ELSE Error("fatal", "TypeError", "cannot read a property of undefined")

\* The call returns: nothing runs after it
Return(result) ==
    /\ outcome' = result
    /\ pc' = "done"

\* A bug: the throw happens outside the try, the promise of the call rejects
ThrowUncaught(error) ==
    /\ pc' = "rejected"
    /\ UNCHANGED outcome

\* A throw inside the try block: the catch block returns the fatal result
Throw(error) == Return(fatalResult(error))

typeName == instances[1].type

allPositions == [i \in DOMAIN changes |-> i]

--------------------------------------------------------------------------
(* deployCustomObjectInstancesGroup up to its first await.  Whether the    *)
(* type is a list custom settings object, whether the caller passed a      *)
(* dataManagement and whether getIdFields reports invalid fields come      *)
(* from outside this file.                                                 *)

\* A bug: the types of the group are not compared
hasSingleTypeUnchecked == TRUE

\* instanceTypes.length > 1 throws
hasSingleType == Cardinality({instances[i].type : i \in DOMAIN instances}) <= 1

Start ==
    /\ pc = "start"
    /\ \E isListCustomSettings \in BOOLEAN, dataManagementDefined \in BOOLEAN,
          invalidFields \in BOOLEAN :
        LET actualDataManagementDefined == isListCustomSettings \/ dataManagementDefined
        IN IF ~hasSingleType
           THEN Throw(Error("fatal", "Error",
                    "Custom Object Instances change group should have a single type"))
           ELSE IF Len(changes) = 0        \* instances[0].getType() of undefined
           THEN Throw(thrown("TypeError"))
           ELSE IF ~actualDataManagementDefined
           THEN Throw(Error("fatal", "Error", "dataManagement must be defined"))
           ELSE IF \A i \in DOMAIN changes : isAdditionChange(changes[i])
           THEN IF invalidFields
                THEN Throw(Error("fatal", "Error", "invalid SaltoIdFields"))
                ELSE pc' = "lookup" /\ UNCHANGED outcome
           ELSE IF \A i \in DOMAIN changes : isRemovalChange(changes[i])
           THEN pc' = "delete" /\ UNCHANGED outcome
           ELSE IF \A i \in DOMAIN changes : isModificationChange(changes[i])
           THEN pc' = "modify" /\ UNCHANGED outcome
           ELSE Throw(Error("fatal", "Error",
                    "Custom Object Instances change group must have one action"))
    /\ UNCHANGED <<hashes, changes, value, existingRecordsLookup, existingInstances,
                   newInstances, insertResult, calls>>

--------------------------------------------------------------------------
(* deployAddInstances *)

\* A bug: every instance is (also) taken as new
partitionAllNew(lookup, val) ==
    LET existing(i) == isExisting(lookup, val[i])
    IN <<Ascending({p \in 1..Len(changes) : existing(p)}), allPositions>>

\* _.partition(instances, instance => lookup[hash(instance.value)] !== undefined)
partition(lookup, val) ==
    LET existing(i) == isExisting(lookup, val[i])
        new(i) == ~isExisting(lookup, val[i])
    IN <<Ascending({p \in 1..Len(changes) : existing(p)}),
         Ascending({p \in 1..Len(changes) : new(p)})>>

\* getRecordsBySaltoIds has settled with resp, then keyBy and partition
LookupOf(resp) ==
    /\ calls' = Append(calls, Call("query", typeName, allPositions, resp))
    /\ IF resp.rejected
       THEN /\ Throw(thrown("rejected"))
            /\ UNCHANGED <<existingRecordsLookup, existingInstances, newInstances>>
       ELSE /\ existingRecordsLookup' = keyBy(resp.results)
            /\ existingInstances' = partition(keyBy(resp.results), value)[1]
            /\ newInstances' = partition(keyBy(resp.results), value)[2]
            /\ pc' = "insert"
            /\ UNCHANGED outcome
    /\ UNCHANGED <<hashes, changes, value, insertResult>>

Lookup ==
    /\ pc = "lookup"
    /\ \E resp \in QueryResponses : LookupOf(resp)

\* A bug: the existing instances are left without the Id of their record
setExistingIdsSkipped(lookup, existing, val) == val

\* existingInstances.forEach: the instance takes the Id of its record
setExistingIds(lookup, existing, val) ==
    [i \in DOMAIN val |->
        IF i \in Range(existing)
        THEN Put(val[i], CUSTOM_OBJECT_ID_FIELD,
                 lookup[computeSaltoIdHash(val[i])][CUSTOM_OBJECT_ID_FIELD])
        ELSE val[i]]

\* insertInstances resolves; the existing instances take their Ids
Insert ==
    /\ pc = "insert"
    /\ \E resp \in BulkResponses(Len(newInstances)) :
        LET r == insertInstances(typeName, newInstances, value, resp)
        IN /\ calls' = calls \o r.calls
           /\ IF r.threw # "no"
              THEN /\ Throw(thrown(r.threw))
                   /\ value' = r.value
                   /\ UNCHANGED insertResult
              ELSE /\ insertResult' = r.result
                   /\ value' = setExistingIds(existingRecordsLookup, existingInstances, r.value)
                   /\ pc' = "update"
                   /\ UNCHANGED outcome
    /\ UNCHANGED <<hashes, changes, existingRecordsLookup, existingInstances, newInstances>>

\* A bug (and what the specification describes): an instance that was
\* updated is reported as a modification
addActionByOperation(inserted) == IF inserted THEN "add" ELSE "modify"

\* The action every applied change of deployAddInstances is tagged with
addAction(inserted) == "add"

addResult(insertRes, updateRes) ==
    [appliedChanges |->
        [k \in 1..Len(insertRes.successInstances) |->
            [action |-> addAction(TRUE), instance |-> insertRes.successInstances[k]]]
        \o [k \in 1..Len(updateRes.successInstances) |->
            [action |-> addAction(FALSE), instance |-> updateRes.successInstances[k]]],
     errors |-> recordErrors(insertRes.errorMessages \o updateRes.errorMessages)]

\* updateInstances resolves; deployAddInstances returns
Update ==
    /\ pc = "update"
    /\ \E resp \in BulkResponses(Len(existingInstances)) :
        LET r == updateInstances(typeName, existingInstances, value, resp)
        IN /\ calls' = calls \o r.calls
           /\ value' = r.value
           /\ IF r.threw # "no"
              THEN Throw(thrown(r.threw))
              ELSE Return(addResult(insertResult, r.result))
    /\ UNCHANGED <<hashes, changes, existingRecordsLookup, existingInstances, newInstances,
                   insertResult>>

--------------------------------------------------------------------------
(* deployRemoveInstances *)

removeResult(deleteRes) ==
    [appliedChanges |->
        [k \in 1..Len(deleteRes.successInstances) |->
            [action |-> "remove", instance |-> deleteRes.successInstances[k]]],
     errors |-> recordErrors(deleteRes.errorMessages)]

Remove ==
    /\ pc = "delete"
    /\ \E resp \in BulkResponses(Len(changes)) :
        LET r == deleteInstances(typeName, allPositions, value, resp)
        IN /\ calls' = calls \o r.calls
           /\ value' = r.value
           /\ IF r.threw # "no"
              THEN Throw(thrown(r.threw))
              ELSE Return(removeResult(r.result))
    /\ UNCHANGED <<hashes, changes, existingRecordsLookup, existingInstances, newInstances,
                   insertResult>>

--------------------------------------------------------------------------
(* deployModifyChanges *)

\* A bug: the api names are not compared
sameApiNameUnchecked(change) == TRUE

\* apiName(changeData.before) === apiName(changeData.after)
sameApiName(change) == change.before.apiName = change.after.apiName

validData == Ascending({p \in 1..Len(changes) : sameApiName(changes[p])})

diffApiNameData == Ascending({p \in 1..Len(changes) : ~sameApiName(changes[p])})

\* instance.isEqual(other): the same element id, type and values
isEqual(val, i, j) ==
    /\ instances[i].name = instances[j].name
    /\ instances[i].type = instances[j].type
    /\ val[i] = val[j]

modifyResult(updateRes, val) ==
    LET found(k) == \E s \in Range(updateRes.successInstances) : isEqual(val, s, validData[k])
        successData == Ascending({p \in 1..Len(validData) : found(p)})
        diffApiNameErrors == [k \in DOMAIN diffApiNameData |->
            Error("apiName", instances[diffApiNameData[k]].name,
                  "Failed to update as api name prev and new are different")]
    IN [appliedChanges |->
            [k \in DOMAIN successData |->
                [action |-> "modify", instance |-> validData[successData[k]]]],
        errors |-> recordErrors(updateRes.errorMessages) \o diffApiNameErrors]

Modify ==
    /\ pc = "modify"
    /\ \E resp \in BulkResponses(Len(validData)) :
        LET r == updateInstances(typeName, validData, value, resp)
        IN /\ calls' = calls \o r.calls
           /\ value' = r.value
           /\ IF r.threw # "no"
              THEN Throw(thrown(r.threw))
              ELSE Return(modifyResult(r.result, r.value))
    /\ UNCHANGED <<hashes, changes, existingRecordsLookup, existingInstances, newInstances,
                   insertResult>>

--------------------------------------------------------------------------
(* The executors called on their own, as a unit test calls them: with the  *)
(* instances of the change list, which may be empty.  pc names the         *)
(* executor that ran, insertResult holds the ActionResult it returned and  *)
(* outcome how it ended ("no": it returned, else what it threw).           *)

InitExec ==
    /\ changes \in SeqsUpTo({c \in ChangePool : c.action = "add" /\ c.after.type = "T1"},
                            MaxChanges)
    /\ value = [i \in DOMAIN changes |-> getChangeElement(changes[i]).value]
    /\ pc = "exec"
    /\ existingRecordsLookup = <<>>
    /\ existingInstances = <<>>
    /\ newInstances = <<>>
    /\ insertResult = EmptyActionResult
    /\ calls = <<>>
    /\ outcome = NoOutcome
    /\ hashes = {}

Executed(name, r) ==
    /\ pc' = name
    /\ calls' = r.calls
    /\ value' = r.value
    /\ insertResult' = r.result
    /\ outcome' = r.threw
    /\ UNCHANGED <<hashes, changes, existingRecordsLookup, existingInstances, newInstances>>

ExecInsert ==
    /\ pc = "exec"
    /\ \E resp \in BulkResponses(Len(changes)) :
        Executed("insertInstances", insertInstances("T1", allPositions, value, resp))

ExecUpdate ==
    /\ pc = "exec"
    /\ \E resp \in BulkResponses(Len(changes)) :
        Executed("updateInstances", updateInstances("T1", allPositions, value, resp))

ExecDelete ==
    /\ pc = "exec"
    /\ \E resp \in BulkResponses(Len(changes)) :
        Executed("deleteInstances", deleteInstances("T1", allPositions, value, resp))

NextExec == ExecInsert \/ ExecUpdate \/ ExecDelete

SpecExec == InitExec /\ [][NextExec]_vars

--------------------------------------------------------------------------
(* The identity hash on its own: computeSaltoIdHash for an instance's      *)
(* values and computeRecordSaltoIdHash for a fetched record, for the id    *)
(* fields a type may be configured with, in each order.  hashes keeps      *)
(* what was computed, so that two computations can be compared.            *)

HashFields == {"Name", "Code__c"}

\* The id fields of a type: one or both fields, in either order
IdFieldsOrders ==
    {names \in UNION {[1..n -> HashFields] : n \in 1..Cardinality(HashFields)} :
        \A j, k \in DOMAIN names : j # k => names[j] # names[k]}

\* The values of an instance or the columns of a record: each field is
\* absent, null or a real value
ValuesPool == UNION {[present -> {Null, "x"}] : present \in SUBSET HashFields}

HashedRecordPool == {Put(vals, "attributes", "T1") : vals \in ValuesPool}

HashEntry(kind, names, input, hash) ==
    [kind |-> kind, names |-> names, input |-> input, hash |-> hash]

InitHash ==
    /\ changes = <<>>
    /\ value = <<>>
    /\ pc = "hash"
    /\ existingRecordsLookup = <<>>
    /\ existingInstances = <<>>
    /\ newInstances = <<>>
    /\ insertResult = EmptyActionResult
    /\ calls = <<>>
    /\ outcome = NoOutcome
    /\ hashes = {}

\* computeSaltoIdHash(instance.value)
HashInstance ==
    /\ pc = "hash"
    /\ Cardinality(hashes) < MaxHashes
    /\ \E names \in IdFieldsOrders, vals \in ValuesPool :
          hashes' = hashes \cup
              {HashEntry("instance", names, vals, computeSaltoIdHashWith(names, vals))}
    /\ UNCHANGED <<changes, value, pc, existingRecordsLookup, existingInstances,
                   newInstances, insertResult, calls, outcome>>

\* computeRecordSaltoIdHash(record)
HashRecord ==
    /\ pc = "hash"
    /\ Cardinality(hashes) < MaxHashes
    /\ \E names \in IdFieldsOrders, record \in HashedRecordPool :
          hashes' = hashes \cup
              {HashEntry("record", names, record, computeRecordSaltoIdHashWith(names, record))}
    /\ UNCHANGED <<changes, value, pc, existingRecordsLookup, existingInstances,
                   newInstances, insertResult, calls, outcome>>

NextHash == HashInstance \/ HashRecord

SpecHash == InitHash /\ [][NextHash]_vars

--------------------------------------------------------------------------
(* deployAddInstances against a remote store that also holds a record of   *)
(* another identity, for a group of Add changes of one type: the fetched   *)
(* records can come in different orders without sharing a hash.            *)

MaxOrderChanges == 2

WideRecordPool == RecordPool \cup {[attributes |-> "T1", Id |-> "r3", Name |-> "b"]}

WideQueryResponses ==
    {Reject} \cup {Resolve(r) : r \in SeqsUpTo(WideRecordPool, MaxRecords)}

InitOrder ==
    /\ changes \in SeqsUpTo({c \in ChangePool : c.action = "add" /\ c.after.type = "T1"},
                            MaxOrderChanges)
    /\ value = [i \in DOMAIN changes |-> getChangeElement(changes[i]).value]
    /\ pc = "start"
    /\ existingRecordsLookup = <<>>
    /\ existingInstances = <<>>
    /\ newInstances = <<>>
    /\ insertResult = EmptyActionResult
    /\ calls = <<>>
    /\ outcome = NoOutcome
    /\ hashes = {}

LookupWide ==
    /\ pc = "lookup"
    /\ \E resp \in WideQueryResponses : LookupOf(resp)

NextOrder == Start \/ LookupWide \/ Insert \/ Update

SpecOrder == InitOrder /\ [][NextOrder]_vars

--------------------------------------------------------------------------
Next == Start \/ Lookup \/ Insert \/ Update \/ Remove \/ Modify

Spec == Init /\ [][Next]_vars
--------------------------------------------------------------------------
(* Vocabulary of the properties *)

Done == pc = "done"

\* The call returned what its catch block builds
FatalOutcome ==
    /\ Done
    /\ outcome.appliedChanges = <<>>
    /\ Len(outcome.errors) = 1
    /\ outcome.errors[1].kind = "fatal"

\* The call returned the result of one of the three deploy functions
Completed == Done /\ \A e \in DOMAIN outcome.errors : outcome.errors[e].kind # "fatal"

AddGroup == Len(changes) > 0 /\ \A i \in DOMAIN changes : changes[i].action = "add"
RemoveGroup == Len(changes) > 0 /\ \A i \in DOMAIN changes : changes[i].action = "remove"
ModifyGroup == Len(changes) > 0 /\ \A i \in DOMAIN changes : changes[i].action = "modify"

CallsOf(op) == {k \in DOMAIN calls : calls[k].op = op}

\* The positions submitted in some bulk call of the operation
SubmittedIn(op) == UNION {Range(calls[k].instances) : k \in CallsOf(op)}

\* The positions reported in appliedChanges
Applied == {outcome.appliedChanges[a].instance : a \in DOMAIN outcome.appliedChanges}

\* The value the instance came with
initialValue(i) == getChangeElement(changes[i]).value

\* The records the lookup fetched
Fetched == UNION {{calls[k].response.results} : k \in {q \in CallsOf("query") :
                                                       ~calls[q].response.rejected}}

\* The Ids of the fetched records whose hash is the hash of instance i
MatchedIds(i) ==
    UNION {{recs[k][CUSTOM_OBJECT_ID_FIELD] : k \in {j \in DOMAIN recs :
                computeRecordSaltoIdHash(recs[j]) = computeSaltoIdHash(initialValue(i))}} :
           recs \in Fetched}

IdOf(i) == Get(value[i], CUSTOM_OBJECT_ID_FIELD)

--------------------------------------------------------------------------
(* C1: an Add instance whose id fields hash like a fetched record is never  *)
(* submitted in the insert bulk call; once deployAddInstances has returned *)
(* it was submitted in the update bulk call and its Id is the Id of a      *)
(* fetched record with that hash.                                          *)
IdempotentRedeploy ==
    \A i \in DOMAIN changes :
        (AddGroup /\ MatchedIds(i) # {}) =>
            /\ i \notin SubmittedIn("insert")
            /\ Completed => /\ i \in SubmittedIn("update")
                            /\ IdOf(i) \in MatchedIds(i)

\* A matched instance was updated beside an instance that was inserted
IdempotentRedeployWitness ==
    /\ AddGroup /\ Completed
    /\ \E i \in DOMAIN changes :
        /\ MatchedIds(i) # {}
        /\ i \in SubmittedIn("update")
        /\ IdOf(i) \in {"r1", "r2"}
    /\ \E j \in DOMAIN changes : j \in SubmittedIn("insert") /\ j \in Applied

(* C2: in an insert bulk call that got one result per record, the outcome  *)
(* holds one applied 'add' change per success result and one error per     *)
(* failure result, and the instance of a failed record has no Id.          *)
InsertPartialFailureIsolation ==
    \A c \in CallsOf("insert") :
        (AddGroup /\ Completed /\ Len(calls[c].response.results) = Len(calls[c].instances)) =>
            LET insts == calls[c].instances
                results == calls[c].response.results
                succeeded == {k \in DOMAIN insts : results[k].success}
                failed == {k \in DOMAIN insts : ~results[k].success}
                nErrors == Len(insertResult.errorMessages)
            IN /\ Cardinality({a \in DOMAIN outcome.appliedChanges :
                                 /\ outcome.appliedChanges[a].instance \in Range(insts)
                                 /\ outcome.appliedChanges[a].action = "add"})
                    = Cardinality(succeeded)
               /\ \A k \in succeeded : insts[k] \in Applied
               /\ nErrors = Cardinality(failed)
               /\ SubSeq(outcome.errors, 1, nErrors) = recordErrors(insertResult.errorMessages)
               /\ \A k \in failed : insts[k] \notin Applied /\ IdOf(insts[k]) = Undefined

(* C3 as claimed: the applied change of an updated instance has action     *)
(* 'modify', that of an inserted instance has action 'add'.                *)
AddActionRecordsOperation ==
    (AddGroup /\ Completed) =>
        \A a \in DOMAIN outcome.appliedChanges :
            /\ outcome.appliedChanges[a].instance \in SubmittedIn("update")
                   => outcome.appliedChanges[a].action = "modify"
            /\ outcome.appliedChanges[a].instance \in SubmittedIn("insert")
                   => outcome.appliedChanges[a].action = "add"

(* C3 amended: every instance of an Add group whose insert or update       *)
(* succeeded is reported in appliedChanges, and every applied change has   *)
(* action 'add', whichever remote operation was performed.                 *)
AddAppliedTaggedAdd ==
    (AddGroup /\ Completed) =>
        /\ \A a \in DOMAIN outcome.appliedChanges : outcome.appliedChanges[a].action = "add"
        /\ \A c \in CallsOf("insert") \cup CallsOf("update") :
              \A k \in DOMAIN calls[c].instances :
                  calls[c].response.results[k].success => calls[c].instances[k] \in Applied

\* An instance that was updated is among the applied changes
AddAppliedTaggedAddWitness ==
    /\ AddGroup /\ Completed
    /\ \E a \in DOMAIN outcome.appliedChanges :
          outcome.appliedChanges[a].instance \in SubmittedIn("update")

(* C4: once a lookup query or a bulk call has rejected, the call has        *)
(* returned no applied change and exactly one error, whatever the earlier  *)
(* bulk calls had applied.                                                 *)
TransportFailureIsFatal ==
    (\E k \in DOMAIN calls : calls[k].response.rejected) =>
        /\ Done
        /\ outcome.appliedChanges = <<>>
        /\ Len(outcome.errors) = 1

\* The insert succeeded for a record and then the update rejected
TransportFailureIsFatalWitness ==
    /\ Done
    /\ \E c \in CallsOf("insert") :
          /\ ~calls[c].response.rejected
          /\ \E k \in DOMAIN calls[c].response.results : calls[c].response.results[k].success
    /\ \E c \in CallsOf("update") : calls[c].response.rejected

(* C5: a Modify change whose before and after api names differ is never    *)
(* submitted in the update bulk call; once deployModifyChanges has         *)
(* returned, each such change has given one error, every other change was  *)
(* submitted, and those whose result is success are applied.               *)
IdentityChangeRejected ==
    LET differs(i) == changes[i].before.apiName # changes[i].after.apiName
        rejected == {i \in DOMAIN changes : differs(i)}
    IN ModifyGroup =>
        /\ SubmittedIn("update") \cap rejected = {}
        /\ Completed =>
            /\ Cardinality({e \in DOMAIN outcome.errors : outcome.errors[e].kind = "apiName"})
                   = Cardinality(rejected)
            /\ \A i \in rejected :
                  Cardinality({e \in DOMAIN outcome.errors :
                                  /\ outcome.errors[e].kind = "apiName"
                                  /\ outcome.errors[e].name = instances[i].name})
                    = Cardinality({j \in rejected : instances[j].name = instances[i].name})
            /\ Applied \cap rejected = {}
            /\ SubmittedIn("update") = DOMAIN changes \ rejected
            /\ \A c \in CallsOf("update") : \A k \in DOMAIN calls[c].instances :
                  calls[c].response.results[k].success => calls[c].instances[k] \in Applied
            /\ \A a \in DOMAIN outcome.appliedChanges :
                  outcome.appliedChanges[a].action = "modify"

\* One change was rejected for its api name, another was updated and applied
IdentityChangeRejectedWitness ==
    /\ ModifyGroup /\ Completed
    /\ \E i \in DOMAIN changes : changes[i].before.apiName # changes[i].after.apiName
    /\ \E j \in Applied : j \in SubmittedIn("update")

--------------------------------------------------------------------------
OneBulkCallPerOperation ==
    \A op \in {"insert", "update", "delete"} : Cardinality(CallsOf(op)) <= 1

\* Two records went in the one insert call, and an update call followed
OneBulkCallPerOperationWitness ==
    /\ Done
    /\ \E c \in CallsOf("insert") : Len(calls[c].instances) >= 2
    /\ CallsOf("update") # {}

(* C8: after the lookup of an Add group the existing and the new instances *)
(* are disjoint, together they are the input, and an instance is existing  *)
(* exactly when its hash is a key of the lookup; once deployAddInstances   *)
(* has returned, every instance was submitted in exactly one of the insert *)
(* and the update bulk call.                                               *)
MatchPartition ==
    (AddGroup /\ Fetched # {}) =>
        /\ Range(existingInstances) \cap Range(newInstances) = {}
        /\ Range(existingInstances) \cup Range(newInstances) = DOMAIN changes
        /\ Len(existingInstances) + Len(newInstances) = Len(changes)
        /\ \A i \in DOMAIN changes :
              i \in Range(existingInstances)
                  <=> computeSaltoIdHash(initialValue(i)) \in DOMAIN existingRecordsLookup
        /\ DOMAIN existingRecordsLookup
               = UNION {{computeRecordSaltoIdHash(recs[k]) : k \in DOMAIN recs} : recs \in Fetched}
        /\ Completed =>
              /\ SubmittedIn("insert") = Range(newInstances)
              /\ SubmittedIn("update") = Range(existingInstances)

\* The group had an existing and a new instance
MatchPartitionWitness ==
    /\ AddGroup /\ Completed
    /\ existingInstances # <<>>
    /\ newInstances # <<>>

(* C9: two Add instances of one batch with the same identity hash that no  *)
(* fetched record matches are not both inserted, and the collision is      *)
(* reported as an error.                                                   *)
NoDuplicateInsert ==
    \A i, j \in DOMAIN changes :
        ( /\ AddGroup /\ Completed
          /\ i # j
          /\ computeSaltoIdHash(initialValue(i)) = computeSaltoIdHash(initialValue(j))
          /\ MatchedIds(i) = {} ) =>
            /\ ~(i \in SubmittedIn("insert") /\ j \in SubmittedIn("insert"))
            /\ outcome.errors # <<>>

(* C10: a change group with more than one record type, or with more than   *)
(* one kind of action, issues no query and no bulk call, leaves every      *)
(* instance as it was, and returns no applied change and exactly one       *)
(* error.                                                                  *)
PreconditionViolationIsFatal ==
    LET types == {getChangeElement(changes[i]).type : i \in DOMAIN changes}
        actions == {changes[i].action : i \in DOMAIN changes}
    IN (Cardinality(types) > 1 \/ Cardinality(actions) > 1) =>
        /\ calls = <<>>
        /\ \A i \in DOMAIN changes : value[i] = initialValue(i)
        /\ pc \in {"start", "done"}
        /\ Done => /\ outcome.appliedChanges = <<>>
                   /\ Len(outcome.errors) = 1

\* A group of one type with two kinds of action was refused
PreconditionViolationIsFatalWitness ==
    /\ Done
    /\ Cardinality({getChangeElement(changes[i]).type : i \in DOMAIN changes}) = 1
    /\ Cardinality({changes[i].action : i \in DOMAIN changes}) > 1
    /\ outcome.errors[1].text = "Custom Object Instances change group must have one action"

--------------------------------------------------------------------------
\* How far the call has come: the awaits it has passed
Rank(at) ==
    CASE at = "start" -> 0
      [] at = "lookup" -> 1
      [] at = "insert" -> 2
      [] at = "update" -> 3
      [] at \in {"delete", "modify"} -> 1
      [] OTHER -> 4

(* C11: a call of deployCustomObjectInstancesGroup never rejects: whatever *)
(* the change list and whatever the remote store answers, every step takes *)
(* the call nearer to its return, the call can go on until it has          *)
(* returned, and what it returns holds appliedChanges and errors.          *)
AlwaysReturnsOutcome ==
    /\ [](pc # "rejected")
    /\ [](Done => DOMAIN outcome = {"appliedChanges", "errors"})
    /\ [](~Done => ENABLED Next)
    /\ [][Rank(pc') > Rank(pc)]_vars

\* The call returned although a bulk call gave fewer results than records
AlwaysReturnsOutcomeWitness ==
    /\ Done
    /\ \E k \in DOMAIN calls :
          /\ ~calls[k].response.rejected
          /\ calls[k].op # "query"
          /\ Len(calls[k].response.results) < Len(calls[k].instances)
    /\ outcome.appliedChanges = <<>>
    /\ Len(outcome.errors) = 1

--------------------------------------------------------------------------
(* C12: when insertInstances has returned, the value of each instance      *)
(* whose positional result reports success is its former value with Id     *)
(* set to that result's id, and the value of every other instance is as    *)
(* it was; when insertInstances threw, and after updateInstances and       *)
(* deleteInstances whatever the results, every value is as it was.         *)
ExecutorsFrame ==
    /\ (pc = "insertInstances" /\ outcome = "no" /\ calls # <<>>) =>
          \A i \in DOMAIN changes :
              LET result == calls[1].response.results[i]
              IN value[i] = IF result.success
                            THEN Put(initialValue(i), CUSTOM_OBJECT_ID_FIELD, result.id)
                            ELSE initialValue(i)
    /\ (pc = "insertInstances" /\ (outcome # "no" \/ calls = <<>>)) =>
          \A i \in DOMAIN changes : value[i] = initialValue(i)
    /\ pc \in {"updateInstances", "deleteInstances"} =>
          \A i \in DOMAIN changes : value[i] = initialValue(i)

\* insertInstances returned from a call whose first record failed and
\* whose later record succeeded
ExecutorsFrameWitness ==
    /\ pc = "insertInstances" /\ outcome = "no" /\ Len(calls) = 1
    /\ \E i, j \in DOMAIN changes :
          /\ i < j
          /\ ~calls[1].response.results[i].success
          /\ calls[1].response.results[j].success
          /\ IdOf(i) = Undefined
          /\ IdOf(j) = calls[1].response.results[j].id

--------------------------------------------------------------------------
\* The last position of the fetched records whose hash is h
LastWithHash(recs, h) ==
    CHOOSE k \in DOMAIN recs :
        /\ computeRecordSaltoIdHash(recs[k]) = h
        /\ \A j \in DOMAIN recs : computeRecordSaltoIdHash(recs[j]) = h => j <= k

\* Two records at different positions of the fetched sequence hash alike
HasDuplicateHash(recs) ==
    \E j, k \in DOMAIN recs :
        j < k /\ computeRecordSaltoIdHash(recs[j]) = computeRecordSaltoIdHash(recs[k])

(* C13: when two fetched records have the same identity hash, the lookup   *)
(* holds for that hash the record fetched last; an instance with that hash *)
(* is classified existing, is not inserted, and once the existing          *)
(* instances have taken their Ids its Id is the Id of that last record;    *)
(* the lookup step raises no error: the call goes on to the insert, and a  *)
(* fatal outcome comes only from a bulk call that rejected or gave fewer   *)
(* results than records.                                                   *)
DuplicateRemoteHashLastWins ==
    \A recs \in Fetched : \A k \in DOMAIN recs :
        ( /\ AddGroup
          /\ \E j \in 1..(k - 1) :
                computeRecordSaltoIdHash(recs[j]) = computeRecordSaltoIdHash(recs[k])
          /\ \A m \in (k + 1)..Len(recs) :
                computeRecordSaltoIdHash(recs[m]) # computeRecordSaltoIdHash(recs[k]) ) =>
            /\ pc # "lookup"
            /\ existingRecordsLookup[computeRecordSaltoIdHash(recs[k])] = recs[k]
            /\ \A i \in DOMAIN changes :
                  computeSaltoIdHash(initialValue(i)) = computeRecordSaltoIdHash(recs[k]) =>
                      /\ i \in Range(existingInstances)
                      /\ i \notin SubmittedIn("insert")
                      /\ (pc = "update" \/ CallsOf("update") # {}) =>
                            IdOf(i) = recs[k][CUSTOM_OBJECT_ID_FIELD]
            /\ FatalOutcome =>
                  \E c \in DOMAIN calls :
                      /\ calls[c].op # "query"
                      /\ \/ calls[c].response.rejected
                         \/ Len(calls[c].response.results) < Len(calls[c].instances)

\* Records r1 and then r2 were fetched with one hash, and an instance with
\* that hash was updated under the Id r2
DuplicateRemoteHashLastWinsWitness ==
    /\ AddGroup /\ Completed
    /\ \E recs \in Fetched :
          /\ Len(recs) = 2
          /\ recs[1][CUSTOM_OBJECT_ID_FIELD] = "r1"
          /\ recs[2][CUSTOM_OBJECT_ID_FIELD] = "r2"
          /\ HasDuplicateHash(recs)
    /\ \E i \in Applied : IdOf(i) = "r2" /\ i \in SubmittedIn("update")

--------------------------------------------------------------------------
(* Vocabulary of the properties of the identity hash *)

\* The values the hash of the entry was computed from
ValsOf(e) == IF e.kind = "record" THEN transformRecordToValues(e.input) ELSE e.input

RemoteNull(e, f) == e.kind = "record" /\ Get(ValsOf(e), f) = Null
LocalAbsent(e, f) == e.kind = "instance" /\ f \notin DOMAIN e.input
LocalNull(e, f) == e.kind = "instance" /\ Get(e.input, f) = Null
NullLike(e, f) == RemoteNull(e, f) \/ LocalAbsent(e, f) \/ LocalNull(e, f)
RealValue(e, f) == Get(ValsOf(e), f) \notin {Null, Undefined}

\* Hashed for the same id fields, f among them, with the same real values
\* in the other id fields
SameElsewhere(e1, e2, f) ==
    /\ e1.names = e2.names
    /\ f \in Range(e1.names)
    /\ \A g \in Range(e1.names) \ {f} :
          RealValue(e1, g) /\ Get(ValsOf(e1), g) = Get(ValsOf(e2), g)

(* C14 as claimed: a record whose identity column is null, an instance     *)
(* whose identity field is absent and an instance whose identity field is  *)
(* null all have the same hash, and none of them has the hash of a record  *)
(* or instance with a real value in that field.                            *)
NullAbsentHashAlike ==
    \A e1, e2 \in hashes : \A f \in HashFields :
        SameElsewhere(e1, e2, f) =>
            /\ (NullLike(e1, f) /\ NullLike(e2, f)) => e1.hash = e2.hash
            /\ (NullLike(e1, f) /\ RealValue(e2, f)) => e1.hash # e2.hash

(* C14 amended: a record whose identity column is null and an instance     *)
(* whose identity field is absent have the same hash; an instance whose    *)
(* identity field is null has another hash than both, the hash of the      *)
(* instances with a null there; none of the three has the hash of a record *)
(* or instance with a real value in that field.                            *)
NullAbsentHash ==
    \A e1, e2 \in hashes : \A f \in HashFields :
        SameElsewhere(e1, e2, f) =>
            /\ ( /\ RemoteNull(e1, f) \/ LocalAbsent(e1, f)
                 /\ RemoteNull(e2, f) \/ LocalAbsent(e2, f) ) => e1.hash = e2.hash
            /\ (LocalNull(e1, f) /\ LocalNull(e2, f)) => e1.hash = e2.hash
            /\ (LocalNull(e1, f) /\ (RemoteNull(e2, f) \/ LocalAbsent(e2, f)))
                  => e1.hash # e2.hash
            /\ (NullLike(e1, f) /\ RealValue(e2, f)) => e1.hash # e2.hash

\* A record with a null Name and an instance without a Name, alike in the
\* other id field, were hashed and have one hash
NullAbsentHashWitness ==
    \E e1, e2 \in hashes :
        /\ SameElsewhere(e1, e2, "Name")
        /\ Len(e1.names) = 2
        /\ RemoteNull(e1, "Name")
        /\ LocalAbsent(e2, "Name")
        /\ e1.hash = e2.hash

\* The id fields that have a value in vals, in the order of names
DefinedInOrder(names, vals) ==
    LET keep == Ascending({p \in 1..Len(names) : Get(vals, names[p]) # Undefined})
    IN [k \in DOMAIN keep |-> names[keep[k]]]

\* Two hashes of instances with the same values, for the same two or more
\* id fields
SameValuesAndFields(e1, e2) ==
    /\ e1.kind = "instance" /\ e2.kind = "instance"
    /\ e1.input = e2.input
    /\ Len(e1.names) >= 2
    /\ Range(e1.names) = Range(e2.names)

\* Two hashes of instances for the same id fields in the same order, with
\* the same values in those fields
SameOrderAndIdValues(e1, e2) ==
    /\ e1.kind = "instance" /\ e2.kind = "instance"
    /\ e1.names = e2.names
    /\ \A f \in Range(e1.names) : Get(e1.input, f) = Get(e2.input, f)

(* C15 as claimed: for the same values of two or more id fields, some of   *)
(* which may be absent, the hash computed with the fields in another order *)
(* is another hash, and the hash computed with the same order is the same. *)
FieldOrderChangesHash ==
    \A e1, e2 \in hashes :
        /\ (SameValuesAndFields(e1, e2) /\ e1.names # e2.names) => e1.hash # e2.hash
        /\ SameOrderAndIdValues(e1, e2) => e1.hash = e2.hash

(* C15 amended: for the same values of two or more id fields, the hash     *)
(* computed with the fields in another order is another hash exactly when  *)
(* the fields that have a value come in another order (an absent value     *)
(* leaves no trace of its field's place); the hash computed with the same  *)
(* order and the same values of the id fields is the same.                 *)
DefinedFieldOrderChangesHash ==
    \A e1, e2 \in hashes :
        /\ SameValuesAndFields(e1, e2) =>
              (e1.hash # e2.hash
                  <=> DefinedInOrder(e1.names, e1.input) # DefinedInOrder(e2.names, e2.input))
        /\ SameOrderAndIdValues(e1, e2) => e1.hash = e2.hash

\* The same values, both present, were hashed in the two orders of the id
\* fields, and the hashes differ
DefinedFieldOrderChangesHashWitness ==
    \E e1, e2 \in hashes :
        /\ SameValuesAndFields(e1, e2)
        /\ e1.names # e2.names
        /\ DOMAIN e1.input = HashFields
        /\ e1.hash # e2.hash

--------------------------------------------------------------------------
\* The same records in each order they can be fetched in
Reorderings(recs) ==
    {[k \in DOMAIN recs |-> recs[at[k]]] :
        at \in {f \in [DOMAIN recs -> DOMAIN recs] :
                   \A j, k \in DOMAIN recs : j # k => f[j] # f[k]}}

\* The fetched records, as a set, whose hash is the hash of instance i
MatchingOf(recs, i) ==
    {r \in Range(recs) : computeRecordSaltoIdHash(r) = computeSaltoIdHash(initialValue(i))}

\* The existing instances have taken the Ids of their records
ExistingIdsSet == pc = "update" \/ CallsOf("update") # {}

(* C16 as claimed: had the fetched records come in any other order, every  *)
(* instance would have the classification it has and the Id it has.        *)
LookupOrderIrrelevant ==
    \A recs \in Fetched : \A other \in Reorderings(recs) :
        AddGroup =>
            /\ partition(keyBy(other), [i \in DOMAIN changes |-> initialValue(i)])
                  = <<existingInstances, newInstances>>
            /\ ExistingIdsSet =>
                  \A i \in Range(existingInstances) :
                      IdOf(i) = keyBy(other)[computeSaltoIdHash(initialValue(i))]
                                    [CUSTOM_OBJECT_ID_FIELD]

(* C16 amended: the classification depends only on the set of the fetched  *)
(* records: an instance is existing exactly when some fetched record has   *)
(* its hash, whatever the order.  Its Id is the Id of a fetched record     *)
(* with its hash: the only one when one record has that hash, and the one  *)
(* fetched last when several have it, so that only then the order of the   *)
(* records matters.                                                        *)
LookupDependsOnUnion ==
    \A recs \in Fetched :
        AddGroup =>
            /\ existingInstances = Ascending({i \in DOMAIN changes : MatchingOf(recs, i) # {}})
            /\ newInstances = Ascending({i \in DOMAIN changes : MatchingOf(recs, i) = {}})
            /\ ExistingIdsSet =>
                  \A i \in DOMAIN changes :
                      MatchingOf(recs, i) # {} =>
                          /\ IdOf(i) \in {r[CUSTOM_OBJECT_ID_FIELD] : r \in MatchingOf(recs, i)}
                          /\ IdOf(i) = recs[LastWithHash(recs, computeSaltoIdHash(initialValue(i)))]
                                           [CUSTOM_OBJECT_ID_FIELD]
                          /\ \A other \in Reorderings(recs) :
                                Cardinality(MatchingOf(recs, i)) = 1 =>
                                    IdOf(i) = keyBy(other)[computeSaltoIdHash(initialValue(i))]
                                                  [CUSTOM_OBJECT_ID_FIELD]

\* Two records of different hashes were fetched, and each of two instances
\* was updated under the Id of its record
LookupDependsOnUnionWitness ==
    /\ AddGroup /\ Completed
    /\ \E recs \in Fetched :
          /\ Len(recs) = 2
          /\ ~HasDuplicateHash(recs)
          /\ \E i, j \in Applied :
                /\ i # j
                /\ IdOf(i) = recs[2][CUSTOM_OBJECT_ID_FIELD]
                /\ IdOf(j) = recs[1][CUSTOM_OBJECT_ID_FIELD]

--------------------------------------------------------------------------
(* C17: in every outcome that is not the fatal one, the applied changes    *)
(* and the errors together are as many as the changes of the group, and    *)
(* every instance submitted to a bulk call is either applied or the        *)
(* subject of an error, whatever the per-record results are.               *)
AccountedExactlyOnce ==
    Completed =>
        /\ Len(outcome.appliedChanges) + Len(outcome.errors) = Len(changes)
        /\ \A op \in {"insert", "update", "delete"} : \A i \in SubmittedIn(op) :
              \/ i \in Applied
              \/ \E e \in DOMAIN outcome.errors : outcome.errors[e].name = instances[i].name

(* C18: a Modify change is reported as applied exactly when the update     *)
(* result at its own position in the bulk call reports success.            *)
ModifyAppliedByOwnResult ==
    (ModifyGroup /\ Completed) =>
        \A c \in CallsOf("update") : \A k \in DOMAIN calls[c].instances :
            calls[c].instances[k] \in Applied <=> calls[c].response.results[k].success

--------------------------------------------------------------------------
\* The insert bulk call answered every record, and the record of instance
\* i with success: the Id that insertInstances gave the instance
InsertedIds(i) ==
    UNION {{calls[c].response.results[k].id : k \in {j \in DOMAIN calls[c].instances :
                /\ Len(calls[c].response.results) = Len(calls[c].instances)
                /\ calls[c].instances[j] = i
                /\ calls[c].response.results[j].success}} : c \in CallsOf("insert")}

\* A bulk call that the remote store carried out for at least one record
AppliedAtRemote ==
    {c \in DOMAIN calls : /\ calls[c].op # "query"
                          /\ \E k \in DOMAIN calls[c].response.results :
                                calls[c].response.results[k].success}

(* C19 as claimed: when the call returns the fatal outcome, no bulk call   *)
(* was carried out at the remote store and no instance has an Id it did    *)
(* not come with.                                                          *)
FatalOutcomeLeavesNoEffect ==
    FatalOutcome =>
        /\ AppliedAtRemote = {}
        /\ \A i \in DOMAIN changes : value[i] = initialValue(i)

(* C19 amended: the fatal outcome reports no applied change, but only a    *)
(* call that failed before its update bulk call (a precondition, the       *)
(* lookup or the insert bulk call failed) has left every instance as it    *)
(* was.  When the update bulk call of an Add group failed, the insert that *)
(* completed before it stays carried out at the remote store, each         *)
(* inserted instance keeps the id of its result and each existing          *)
(* instance the Id of its record; no other value is changed.               *)
FatalOutcomeKeepsEarlierEffects ==
    FatalOutcome =>
        /\ outcome.appliedChanges = <<>>
        /\ (CallsOf("update") = {} \/ ~AddGroup) =>
              \A i \in DOMAIN changes : value[i] = initialValue(i)
        /\ (CallsOf("update") # {} /\ AddGroup) =>
              \A i \in DOMAIN changes :
                  /\ i \in Range(newInstances) =>
                        \/ InsertedIds(i) = {} /\ value[i] = initialValue(i)
                        \/ \E id \in InsertedIds(i) :
                              value[i] = Put(initialValue(i), CUSTOM_OBJECT_ID_FIELD, id)
                  /\ i \in Range(existingInstances) =>
                        \E id \in MatchedIds(i) :
                            value[i] = Put(initialValue(i), CUSTOM_OBJECT_ID_FIELD, id)

\* The fatal outcome was returned after the insert of a record was carried
\* out at the remote store and its instance was given the new Id
FatalOutcomeKeepsEarlierEffectsWitness ==
    /\ FatalOutcome
    /\ \E c \in AppliedAtRemote : calls[c].op = "insert"
    /\ \E i \in DOMAIN changes : InsertedIds(i) # {} /\ IdOf(i) \in InsertedIds(i)
    /\ \E i \in DOMAIN changes : i \in Range(existingInstances) /\ IdOf(i) \in MatchedIds(i)

(* C20 as claimed: after an Add reconciliation that was not fatal, an      *)
(* instance has an Id exactly when it is in appliedChanges.                *)
IdIffApplied ==
    (AddGroup /\ Completed) =>
        \A i \in DOMAIN changes : IdOf(i) # Undefined <=> i \in Applied

(* C20 amended: after an Add reconciliation that was not fatal, a new      *)
(* instance has an Id, the id of its insert result, exactly when it is in  *)
(* appliedChanges, and one whose insert failed has none; an existing       *)
(* instance has the Id of its fetched record whether or not its update     *)
(* succeeded, and is in appliedChanges exactly when its update succeeded.  *)
IdIffInsertedOrExisting ==
    (AddGroup /\ Completed) =>
        \A i \in DOMAIN changes :
            /\ i \in Range(newInstances) =>
                  /\ IdOf(i) # Undefined <=> i \in Applied
                  /\ i \in Applied => IdOf(i) \in InsertedIds(i)
            /\ i \in Range(existingInstances) =>
                  /\ IdOf(i) \in MatchedIds(i)
                  /\ i \in Applied <=>
                        \E c \in CallsOf("update") : \E k \in DOMAIN calls[c].instances :
                            calls[c].instances[k] = i /\ calls[c].response.results[k].success

\* An existing instance whose update was reported as an error has the Id
\* of its record, beside a new instance whose insert failed and has none
IdIffInsertedOrExistingWitness ==
    /\ AddGroup /\ Completed
    /\ outcome.errors # <<>>
    /\ \E i \in Range(existingInstances) : i \notin Applied /\ IdOf(i) \in {"r1", "r2"}
    /\ \E j \in Range(newInstances) : j \notin Applied /\ IdOf(j) = Undefined

--------------------------------------------------------------------------
====
